---------------------------- MODULE Spec2Model ----------------------------
(***************************************************************************)
(* The dashboard script app.py as a state machine.  One render executes   *)
(* the script top to bottom: the memoized loader, the revenue anomaly     *)
(* section, the cohort retention section, the support/payment section and *)
(* the closing success message.  A table is a record                      *)
(*   [cols |-> sequence of column names, rows |-> sequence of rows]       *)
(* and a row is a function from column names to values.  Amounts are      *)
(* integers, so that sums, means and standard deviations are exact.  An   *)
(* exception that the script does not catch ends the script run.          *)
(***************************************************************************)
EXTENDS Integers, Sequences, FiniteSets

VARIABLES
    archive,            \* the five tables held by the remote zip archive
    cache,              \* st.cache_data memo of load_data_from_github
    fetches,            \* requests.get calls made by this process
    renders,            \* script runs started by this process
    renderFetches,      \* requests.get calls made by the current script run
    pc,                 \* position of the current script run
    transactions, sessions, customers, tickets, products,
    monthly_rev,        \* section 1 output
    merge, cohort_size, retention, retention_rate,   \* section 2 frames
    support_vs_payment, \* section 3 output
    shown               \* elements handed to the page by the current run

vars == <<archive, cache, fetches, renders, renderFetches, pc,
          transactions, sessions, customers, tickets, products,
          monthly_rev, merge, cohort_size, retention, retention_rate,
          support_vs_payment, shown>>

-----------------------------------------------------------------------------
(* Bounds of the model *)

MaxRenders == 2
MaxMonths == 6
MaxCust == 2
MaxSess == 2
MaxTickets == 2
MaxTx == 2
BigCohort == 2001

(* Constants of the program *)

HTTP_OK == 200
ZThreshold == 2
MinOffset == 0
MaxOffset == 5
RoundDigits == 3
Percent == 100
SignificandBits == 53

StatusCodes == {HTTP_OK, 404, 500}
PaymentStatuses == {"paid", "refunded", "charged_back"}

-----------------------------------------------------------------------------
(* Generic helpers on sequences, sets and tables *)

Range(s) == {s[i] : i \in DOMAIN s}

RECURSIVE SumSeq(_)
SumSeq(s) == IF s = <<>> THEN 0 ELSE s[1] + SumSeq(Tail(s))

\* the elements of S in ascending order of Less, as pandas sorts group keys
SortSet(S, Less(_, _)) ==
    [i \in 1..Cardinality(S) |->
        CHOOSE x \in S : Cardinality({y \in S : Less(y, x)}) = i - 1]

IntLess(a, b) == a < b
StrRank(s) == CASE s = "charged_back" -> 1 [] s = "paid" -> 2 [] s = "refunded" -> 3
StrLess(a, b) == StrRank(a) < StrRank(b)

SelectRows(t, Keep(_)) == [cols |-> t.cols, rows |-> SelectSeq(t.rows, Keep)]

\* df[name] = f(row): a new last column, or an existing one overwritten
WithColumn(t, name, F(_)) ==
    [cols |-> IF name \in Range(t.cols) THEN t.cols ELSE Append(t.cols, name),
     rows |-> [i \in DOMAIN t.rows |->
                 [c \in DOMAIN t.rows[i] \cup {name} |->
                     IF c = name THEN F(t.rows[i]) ELSE t.rows[i][c]]]]

\* df[name], as a sequence of values
Column(t, name) == [i \in DOMAIN t.rows |-> t.rows[i][name]] \o <<>>

EmptyTable == [cols |-> <<>>, rows |-> <<>>]

-----------------------------------------------------------------------------
(* Timestamps *)

Date(y, m, d) == [year |-> y, month |-> m, day |-> d]
NaT == [year |-> 0, month |-> 0, day |-> 0]

\* .dt.to_period("M").dt.to_timestamp(): the first day of the month
ToMonthStart(t) == IF t = NaT THEN NaT ELSE Date(t.year, t.month, 1)

DateLess(a, b) ==
    \/ a.year < b.year
    \/ a.year = b.year /\ a.month < b.month
    \/ a.year = b.year /\ a.month = b.month /\ a.day < b.day

\* floating point values that may be NaN; comparisons with NaN are false
NaN == [nan |-> TRUE, v |-> 0]
Num(n) == [nan |-> FALSE, v |-> n]


-----------------------------------------------------------------------------
(* Section 1: monthly revenue trend with anomaly detection *)

IsPaid(row) == row["payment_status"] = "paid"
TransactionMonth(row) == ToMonthStart(row["created_at"])

\* transactions[transactions["payment_status"] == "paid"].copy(), with the
\* transaction_month column added to the copy
PaidTx(tx) == WithColumn(SelectRows(tx, IsPaid), "transaction_month", TransactionMonth)

\* groupby("transaction_month")["total_amount"].sum().reset_index()
\*     .sort_values("transaction_month")
MonthlyTotals(paid) ==
    LET months == {r["transaction_month"] : r \in Range(paid.rows)}
        InMonth(m) == SelectSeq(paid.rows, LAMBDA r : r["transaction_month"] = m)
        Total(m) == SumSeq([i \in DOMAIN InMonth(m) |-> InMonth(m)[i]["total_amount"]])
        sorted == SortSet(months, DateLess)
    IN  [cols |-> <<"transaction_month", "total_amount">>,
         rows |-> [i \in DOMAIN sorted |->
                     [c \in {"transaction_month", "total_amount"} |->
                         IF c = "transaction_month" THEN sorted[i] ELSE Total(sorted[i])]]]

\* Series.mean(): the sum over the count, kept as an exact fraction
Mean(xs) ==
    IF Len(xs) = 0 THEN [nan |-> TRUE, num |-> 0, den |-> 1]
    ELSE [nan |-> FALSE, num |-> SumSeq(xs), den |-> Len(xs)]

\* Series.std(): ddof = 1.  The variance is kept as the exact fraction
\* sum((x - mean)^2) / (n - 1) = sum((n*x - S)^2) / (n^2 * (n - 1)).
StdDivisor(n) == n - 1

Variance(xs) ==
    LET n == Len(xs)
        S == SumSeq(xs)
    IN  IF StdDivisor(n) <= 0 THEN [nan |-> TRUE, num |-> 0, den |-> 1]
        ELSE [nan |-> FALSE,
              num |-> SumSeq([i \in DOMAIN xs |-> (n * xs[i] - S) * (n * xs[i] - S)]),
              den |-> n * n * StdDivisor(n)]

Sign(k) == IF k > 0 THEN 1 ELSE IF k < 0 THEN -1 ELSE 0

\* (x - mean_rev) / std_rev, kept as its sign and its exact square;
\* 0/0 and anything over a NaN deviation are NaN
ZScore(x, mean, var) ==
    IF mean.nan \/ var.nan \/ var.num = 0
    THEN [nan |-> TRUE, sgn |-> 0, num |-> 0, den |-> 1]
    ELSE LET dev == mean.den * x - mean.num      \* den * (x - mean)
         IN  [nan |-> FALSE, sgn |-> Sign(dev),
              num |-> dev * dev * var.den,
              den |-> mean.den * mean.den * var.num]

\* z > threshold: the comparison without abs()
SignedGreater(z, threshold) ==
    ~z.nan /\ z.sgn > 0 /\ z.num > threshold * threshold * z.den

\* abs(z) > threshold, false for NaN
AbsGreater(z, threshold) == ~z.nan /\ z.num > threshold * threshold * z.den

\* np.where(abs(z) <= 2, "Normal", "Anomaly"): NaN falls to "Anomaly"
AnomalyLabelNegated(z) ==
    IF ~z.nan /\ z.num <= ZThreshold * ZThreshold * z.den THEN "Normal" ELSE "Anomaly"

AnomalyLabel(z) == IF AbsGreater(z, ZThreshold) THEN "Anomaly" ELSE "Normal"

MonthlyRev(tx) ==
    LET totals == MonthlyTotals(PaidTx(tx))
        xs == Column(totals, "total_amount")
        mean_rev == Mean(xs)
        var_rev == Variance(xs)
        Z(row) == ZScore(row["total_amount"], mean_rev, var_rev)
        Label(row) == AnomalyLabel(row["z_score"])
    IN  WithColumn(WithColumn(totals, "z_score", Z), "anomaly", Label)


-----------------------------------------------------------------------------
(* Section 2: cohort retention heatmap *)

CohortMonth(row) == ToMonthStart(row["signup_date"])
ActivityMonth(row) == ToMonthStart(row["session_start"])

WithCohortMonth(cust) == WithColumn(cust, "cohort_month", CohortMonth)
WithActivityMonth(sess) == WithColumn(sess, "activity_month", ActivityMonth)

\* pd.merge(customers[[customer_id, cohort_month]],
\*          sessions[[customer_id, activity_month]], on="customer_id", how="left")
\* The result is the set of its rows, each keyed by <<left row, right row>>,
\* with right row 0 for a customer without session, whose activity_month is NaT.
MergeLeft(cust, sess) ==
    LET cid == Column(cust, "customer_id")
        ccm == Column(cust, "cohort_month")
        sid == Column(sess, "customer_id")
        sam == Column(sess, "activity_month")
        Row(i, j) == [key |-> <<i, j>>, customer_id |-> cid[i], cohort_month |-> ccm[i],
                      activity_month |-> IF j = 0 THEN NaT ELSE sam[j]]
    IN  UNION {LET matches == {j \in DOMAIN sid : sid[j] = cid[i]}
               IN  IF matches = {} THEN {Row(i, 0)}
                   ELSE {Row(i, j) : j \in matches} : i \in DOMAIN cid}

\* (activity.year - cohort.year) * 12 + (activity.month - cohort.month)
MonthNumber(row) ==
    IF row.activity_month = NaT \/ row.cohort_month = NaT THEN NaN
    ELSE Num((row.activity_month.year - row.cohort_month.year) * 12
             + (row.activity_month.month - row.cohort_month.month))

\* merge["month_number"] = ...
WithMonthNumber(merged) ==
    {[key |-> r.key, customer_id |-> r.customer_id, cohort_month |-> r.cohort_month,
      activity_month |-> r.activity_month, month_number |-> MonthNumber(r)] :
        r \in merged}

\* merge[merge["month_number"] >= 0]: the window without its upper end
InWindowNoUpper(mn) == ~mn.nan /\ mn.v >= MinOffset

\* merge[(month_number >= 0) & (month_number <= 5)]
InWindow(mn) == ~mn.nan /\ mn.v >= MinOffset /\ mn.v <= MaxOffset

Filtered(merged) == {r \in merged : InWindow(r.month_number)}

\* merge.groupby("cohort_month")["customer_id"].nunique()
CohortSize(rows) ==
    [c \in {r.cohort_month : r \in rows} |->
        Cardinality({r.customer_id : r \in {x \in rows : x.cohort_month = c}})]

\* the month offsets that become columns of the unstacked frame
RetentionColumns(rows) == {r.month_number.v : r \in rows}

\* ....count() in place of .nunique(): sessions counted, not customers
RetentionCountingRows(rows) ==
    LET cohorts == {r.cohort_month : r \in rows}
        offsets == {r.month_number.v : r \in rows}
    IN  [index |-> SortSet(cohorts, DateLess),
         cols |-> SortSet(offsets, IntLess),
         cell |-> [c \in cohorts |-> [m \in offsets |->
                     Cardinality({r \in rows : r.cohort_month = c
                                               /\ r.month_number.v = m})]]]

\* merge.groupby(["cohort_month", "month_number"])["customer_id"].nunique()
\*      .unstack(fill_value=0)
Retention(rows) ==
    LET cohorts == {r.cohort_month : r \in rows}
        offsets == RetentionColumns(rows)
    IN  [index |-> SortSet(cohorts, DateLess),
         cols |-> SortSet(offsets, IntLess),
         cell |-> [c \in cohorts |-> [m \in offsets |->
                     Cardinality({r.customer_id :
                         r \in {x \in rows : x.cohort_month = c /\ x.month_number.v = m}})]]]

RECURSIVE Pow10(_)
Pow10(k) == IF k = 0 THEN 1 ELSE 10 * Pow10(k - 1)

RECURSIVE Pow2(_)
Pow2(k) == IF k = 0 THEN 1 ELSE 2 * Pow2(k - 1)

(* The quotient of the division is a float64.  A positive float64 is kept as *)
(* [m, e] with the value m * 2^e: m is a natural number of at most           *)
(* SignificandBits binary digits, written as a sequence of limbs of LimbBits *)
(* binary digits each, most significant limb first.                          *)

LimbBits == 13
Base == Pow2(LimbBits)

\* the binary digit of weight 2^i of m
Bit(m, i) ==
    LET j == Len(m) - (i \div LimbBits)
    IN  IF j < 1 THEN 0 ELSE (m[j] \div Pow2(i % LimbBits)) % 2

\* some binary digit of m of weight below 2^i is 1
AnyBelow(m, i) ==
    \E j \in DOMAIN m :
        LET lo == LimbBits * (Len(m) - j)
        IN  IF lo >= i THEN FALSE
            ELSE IF lo + LimbBits <= i THEN m[j] # 0
            ELSE m[j] % Pow2(i - lo) # 0

\* the weight of the leading binary digit of m, whose first limb is not 0
TopBit(m) ==
    LimbBits * (Len(m) - 1)
        + (CHOOSE i \in 0..(LimbBits - 1) : Pow2(i) <= m[1] /\ m[1] < Pow2(i + 1))

\* m with its binary digits of weight below 2^d set to 0
ClearBelow(m, d) ==
    [j \in DOMAIN m |->
        LET lo == LimbBits * (Len(m) - j)
        IN  IF lo >= d THEN m[j]
            ELSE IF lo + LimbBits <= d THEN 0
            ELSE (m[j] \div Pow2(d - lo)) * Pow2(d - lo)] \o <<>>

RECURSIVE AddLimb(_, _, _)
\* m with v added to its limb j, the carry going to the limbs before it
AddLimb(m, j, v) ==
    IF v = 0 THEN m
    ELSE IF j = 0 THEN <<v>> \o m
    ELSE AddLimb([m EXCEPT ![j] = (m[j] + v) % Base], j - 1, (m[j] + v) \div Base)

\* m rounded to SignificandBits binary digits, to nearest and ties to even;
\* sticky tells that the exact value lies above m
RoundBig(m, sticky) ==
    LET d == TopBit(m) + 1 - SignificandBits
    IN  IF d <= 0 THEN m
        ELSE IF Bit(m, d - 1) = 1 /\ (sticky \/ AnyBelow(m, d - 1) \/ Bit(m, d) = 1)
        THEN AddLimb(ClearBelow(m, d), Len(m) - (d \div LimbBits), Pow2(d % LimbBits))
        ELSE ClearBelow(m, d)

RECURSIVE Shift(_, _)
\* the least s with a * 2^s >= b
Shift(a, b) == IF a >= b THEN 0 ELSE 1 + Shift(2 * a, b)

RECURSIVE FracLimbs(_, _, _)
\* the first n limbs of r / b after the point, for r < b, and the remainder
\* they leave
FracLimbs(r, b, n) ==
    IF n = 0 THEN [limbs |-> <<>>, rem |-> r]
    ELSE LET rest == FracLimbs((r * Base) % b, b, n - 1)
         IN  [limbs |-> <<(r * Base) \div b>> \o rest.limbs, rem |-> rest.rem]

\* the limbs of the quotient computed after the point: more than
\* SignificandBits binary digits
QuotientLimbs == (SignificandBits \div LimbBits) + 1

\* a / b in float64, for integers a > 0 and b > 0
FloatDivide(a, b) ==
    LET s == Shift(a, b)
        n == a * Pow2(s)
        frac == FracLimbs(n % b, b, QuotientLimbs)
    IN  [m |-> RoundBig(<<n \div b>> \o frac.limbs, frac.rem # 0),
         e |-> 0 - LimbBits * QuotientLimbs - s]

RECURSIVE LimbsToInt(_)
LimbsToInt(m) ==
    IF m = <<>> THEN 0
    ELSE Base * LimbsToInt(SubSeq(m, 1, Len(m) - 1)) + m[Len(m)]

RECURSIVE MulLimbs(_, _, _)
\* the limbs of m * k + carry
MulLimbs(m, k, carry) ==
    IF m = <<>> THEN IF carry = 0 THEN <<>> ELSE <<carry>>
    ELSE LET v == m[Len(m)] * k + carry
         IN  Append(MulLimbs(SubSeq(m, 1, Len(m) - 1), k, v \div Base), v % Base)

\* x * k in float64, for a positive integer k below Base
FloatTimes(x, k) == [m |-> RoundBig(MulLimbs(x.m, k, 0), FALSE), e |-> x.e]

\* np.rint of a float64 with digits after the point: the nearest integer,
\* ties to even
Rint(x) ==
    LET f == 0 - x.e
        above == Len(x.m) - (f \div LimbBits)
        whole == IF above < 1 THEN 0
                 ELSE LimbsToInt(SubSeq(x.m, 1, above)) \div Pow2(f % LimbBits)
    IN  IF Bit(x.m, f - 1) = 1 /\ (AnyBelow(x.m, f - 1) \/ whole % 2 = 1)
        THEN whole + 1 ELSE whole

\* (a / b).round(digits) as an integer count of 10^-digits: numpy rounds
\* rint(q * 10^digits) / 10^digits on the float64 quotient q of a / b
RoundRatio(a, b, digits) ==
    IF a = 0 THEN 0 ELSE Rint(FloatTimes(FloatDivide(a, b), Pow10(digits)))

\* retention.divide(cohort_size, axis=0).round(3) * 100: each cell is the
\* count of thousandths that round() yields, kept as the fraction num / den
\* of a percentage
RetentionRate(ret, size) ==
    [index |-> ret.index,
     cols |-> ret.cols,
     cell |-> [c \in DOMAIN ret.cell |-> [m \in DOMAIN ret.cell[c] |->
                 [num |-> RoundRatio(ret.cell[c][m], size[c], RoundDigits) * Percent,
                  den |-> Pow10(RoundDigits)]]]]

EmptyMatrix == [index |-> <<>>, cols |-> <<>>, cell |-> <<>>]

-----------------------------------------------------------------------------
(* Section 3: support ticket volume against payment outcomes *)

\* tickets.groupby("customer_id").size().reset_index(name="ticket_count")
TicketCounts(tk) ==
    LET ids == SortSet({r["customer_id"] : r \in Range(tk.rows)}, IntLess)
    IN  [cols |-> <<"customer_id", "ticket_count">>,
         rows |-> [i \in DOMAIN ids |->
                     [c \in {"customer_id", "ticket_count"} |->
                         IF c = "customer_id" THEN ids[i]
                         ELSE Len(SelectSeq(tk.rows,
                                  LAMBDA r : r["customer_id"] = ids[i]))]]]

\* the payment statuses that become columns of the unstacked frame
StatusColumns(tx) == SortSet({r["payment_status"] : r \in Range(tx.rows)}, StrLess)

\* transactions.groupby(["customer_id", "payment_status"])["transaction_id"]
\*      .count().unstack(fill_value=0).reset_index()
PaymentSummary(tx) ==
    LET ids == SortSet({r["customer_id"] : r \in Range(tx.rows)}, IntLess)
        statuses == StatusColumns(tx)
    IN  [cols |-> <<"customer_id">> \o statuses,
         rows |-> [i \in DOMAIN ids |->
                     [c \in {"customer_id"} \cup Range(statuses) |->
                         IF c = "customer_id" THEN ids[i]
                         ELSE Len(SelectSeq(tx.rows,
                                  LAMBDA r : r["customer_id"] = ids[i]
                                             /\ r["payment_status"] = c))]]]

\* how="inner": the customers without transactions are dropped
MergeCountsInner(left, right) ==
    LET rcols == SelectSeq(right.cols, LAMBDA c : c # "customer_id")
        Matched(row) == \E j \in DOMAIN right.rows :
                           right.rows[j]["customer_id"] = row["customer_id"]
        kept == SelectSeq(left.rows, Matched)
    IN  [cols |-> left.cols \o rcols,
         rows |-> [i \in DOMAIN kept |->
                     [c \in Range(left.cols) \cup Range(rcols) |->
                         IF c \in Range(left.cols) THEN Num(kept[i][c])
                         ELSE Num(right.rows[CHOOSE j \in DOMAIN right.rows :
                                 right.rows[j]["customer_id"] = kept[i]["customer_id"]][c])]]]

\* pd.merge(ticket_counts, payment_summary, on="customer_id", how="left"):
\* customer_id is unique on both sides, so there is one row per left row;
\* the right columns of a customer without transactions are NaN
MergeCounts(left, right) ==
    LET rcols == SelectSeq(right.cols, LAMBDA c : c # "customer_id")
        Match(i) == {j \in DOMAIN right.rows :
                        right.rows[j]["customer_id"] = left.rows[i]["customer_id"]}
    IN  [cols |-> left.cols \o rcols,
         rows |-> [i \in DOMAIN left.rows |->
                     [c \in Range(left.cols) \cup Range(rcols) |->
                         IF c \in Range(left.cols) THEN Num(left.rows[i][c])
                         ELSE IF Match(i) = {} THEN NaN
                         ELSE Num(right.rows[CHOOSE j \in Match(i) : TRUE][c])]]]

\* support_vs_payment.fillna(0, inplace=True)
FillNa(t, value) ==
    [cols |-> t.cols,
     rows |-> [i \in DOMAIN t.rows |->
                 [c \in DOMAIN t.rows[i] |->
                     IF t.rows[i][c].nan THEN value ELSE t.rows[i][c].v]]]

\* .get() with a name that is never a column: always the default
GetColumnMissed(t, name, default) == [i \in DOMAIN t.rows |-> default]

\* support_vs_payment.get("paid", 0): the column, or the default
GetColumn(t, name, default) ==
    IF name \in Range(t.cols) THEN Column(t, name)
    ELSE [i \in DOMAIN t.rows |-> default]

\* tooltip=[...] of the scatter plot: fields given without a type, which
\* altair infers from the column of the frame
TooltipFields == <<"customer_id", "ticket_count", "paid_tx", "refunded", "charged_back">>

\* st.altair_chart(scatter_plot) raises ValueError when a tooltip field is
\* no column of the frame
ChartRaises(frame) == \E f \in Range(TooltipFields) : f \notin Range(frame.cols)

\* .dt on a column of a table read from a file without rows raises
\* AttributeError: read_csv leaves such a column with dtype object
DtRaises(t) == t.rows = <<>>

SupportVsPayment(tk, tx) ==
    LET merged == FillNa(MergeCounts(TicketCounts(tk), PaymentSummary(tx)), 0)
        paid == GetColumn(merged, "paid", 0)
    IN  [cols |-> Append(merged.cols, "paid_tx"),
         rows |-> [i \in DOMAIN merged.rows |->
                     [c \in DOMAIN merged.rows[i] \cup {"paid_tx"} |->
                         IF c = "paid_tx" THEN paid[i] ELSE merged.rows[i][c]]]]


-----------------------------------------------------------------------------
(* The archive: the tables read by pd.read_csv *)

TxCols == <<"transaction_id", "customer_id", "created_at", "payment_status",
            "total_amount">>
SessCols == <<"customer_id", "session_start", "session_end">>
CustCols == <<"customer_id", "signup_date">>
TicketCols == <<"customer_id", "created_at", "resolved_at">>
ProductCols == <<"product_id">>

TxRow(id, cust, at, status, amount) ==
    [transaction_id |-> id, customer_id |-> cust, created_at |-> at,
     payment_status |-> status, total_amount |-> amount]
SessRow(cust, at) == [customer_id |-> cust, session_start |-> at, session_end |-> at]
CustRow(cust, at) == [customer_id |-> cust, signup_date |-> at]
TicketRow(cust, at) == [customer_id |-> cust, created_at |-> at, resolved_at |-> at]

Archive(tx, sess, cust, tk) ==
    [transactions |-> [cols |-> TxCols, rows |-> tx],
     sessions |-> [cols |-> SessCols, rows |-> sess],
     customers |-> [cols |-> CustCols, rows |-> cust],
     tickets |-> [cols |-> TicketCols, rows |-> tk],
     products |-> [cols |-> ProductCols, rows |-> <<[product_id |-> 1]>>]]

NoTables ==
    [transactions |-> EmptyTable, sessions |-> EmptyTable, customers |-> EmptyTable,
     tickets |-> EmptyTable, products |-> EmptyTable]

BaseTx == <<TxRow(1, 1, Date(2024, 1, 10), "paid", 100),
            TxRow(2, 1, Date(2024, 1, 20), "refunded", 40),
            TxRow(3, 1, Date(2024, 2, 5), "charged_back", 25)>>
BaseSess == <<SessRow(1, Date(2024, 1, 12))>>
BaseCust == <<CustRow(1, Date(2024, 1, 2))>>
BaseTickets == <<TicketRow(1, Date(2024, 1, 15))>>

(* Transactions for the revenue section: for each of MaxMonths consecutive   *)
(* calendar months starting in October 2023, one of three ledgers; or one    *)
(* paid transaction in each of fewer than MaxMonths months; or the paid      *)
(* totals 100, 110, 105, 95, 600, 102 next to a refund and a chargeback.     *)

MonthDate(i, d) == Date(2023 + ((i + 8) \div 12), ((i + 8) % 12) + 1, d)

MonthLedger(i, option) ==
    CASE option = 1 -> <<TxRow(0, 2, MonthDate(i, 15), "refunded", 60),
                         TxRow(0, 2, MonthDate(i, 16), "charged_back", 60)>>
      [] option = 2 -> <<TxRow(0, 1, MonthDate(i, 5), "paid", 10)>>
      [] option = 3 -> <<TxRow(0, 1, MonthDate(i, 3), "paid", 30),
                         TxRow(0, 2, MonthDate(i, 28), "paid", 30)>>

LedgerOptions == 1..3

RECURSIVE Ledger(_, _, _)
\* the ledgers of months 1..n, oldest month first or newest month first
Ledger(choice, n, newestFirst) ==
    IF n = 0 THEN <<>>
    ELSE IF newestFirst
         THEN MonthLedger(n, choice[n]) \o Ledger(choice, n - 1, newestFirst)
         ELSE Ledger(choice, n - 1, newestFirst) \o MonthLedger(n, choice[n])

\* transaction_id is the position of the row in the file
Numbered(rows) == [i \in DOMAIN rows |-> [rows[i] EXCEPT !.transaction_id = i]]

Amounts == {10, 35, 60}
ShortLedgers ==
    UNION {{[i \in 1..n |-> TxRow(i, 1, MonthDate(i, 7), "paid", amt[i])] :
               amt \in [1..n -> Amounts]} : n \in 1..(MaxMonths - 1)}

ExampleTotals == <<100, 110, 105, 95, 600, 102>>
ExampleTx ==
    [i \in DOMAIN ExampleTotals |->
        TxRow(i, 1, Date(2024, i, 10 + i), "paid", ExampleTotals[i])]
    \o <<TxRow(Len(ExampleTotals) + 1, 1, Date(2024, 5, 20), "refunded", 600),
          TxRow(Len(ExampleTotals) + 2, 1, Date(2024, 7, 1), "charged_back", 50)>>
ExampleArchive == Archive(ExampleTx, BaseSess, BaseCust, BaseTickets)

RevArchives ==
    {Archive(Numbered(Ledger(choice, MaxMonths, nf)), BaseSess, BaseCust, BaseTickets) :
        choice \in [1..MaxMonths -> LedgerOptions], nf \in BOOLEAN}
    \cup {Archive(tx, BaseSess, BaseCust, BaseTickets) : tx \in ShortLedgers}
    \cup {ExampleArchive}

(* Customers and sessions for the retention section *)

SignupDates == {Date(2023, 11, 20), Date(2023, 12, 1)}
SessionDates == {Date(2023, 11, 25), Date(2024, 1, 3), Date(2024, 5, 10)}

CustTables ==
    UNION {{[i \in 1..n |-> CustRow(i, at[i])] : at \in [1..n -> SignupDates]} :
              n \in 0..MaxCust}
SessTables ==
    UNION {{[i \in 1..n |-> SessRow(r[i][1], r[i][2])] :
               r \in [1..n -> (1..MaxCust) \X SessionDates]} : n \in 0..MaxSess}

\* one large cohort: every customer is active in the signup month, and the
\* first customer is active again two months later
BigCust == [i \in 1..BigCohort |-> CustRow(i, Date(2023, 11, 20))]
BigSess == [i \in 1..(BigCohort + 1) |->
               IF i <= BigCohort THEN SessRow(i, Date(2023, 11, 25))
               ELSE SessRow(1, Date(2024, 1, 3))]

RetArchives ==
    {Archive(BaseTx, sess, cust, BaseTickets) : sess \in SessTables, cust \in CustTables}
    \cup {Archive(BaseTx, BigSess, BigCust, BaseTickets)}

(* Tickets and transactions for the support section *)

TicketTables ==
    UNION {{[i \in 1..n |-> TicketRow(c[i], Date(2024, 2, 1))] :
               c \in [1..n -> 1..MaxCust]} : n \in 0..MaxTickets}
TxTables ==
    UNION {{[i \in 1..n |-> TxRow(i, r[i][1], Date(2024, 2, 2), r[i][2], 100)] :
               r \in [1..n -> (1..MaxCust) \X PaymentStatuses]} : n \in 0..MaxTx}

SupArchives ==
    {Archive(tx, BaseSess, BaseCust, tk) : tx \in TxTables, tk \in TicketTables}

(* A few archives of every kind, for the properties of the loader *)

LoaderArchives ==
    {Archive(tx, BaseSess, BaseCust, BaseTickets) : tx \in TxTables}
    \cup {Archive(BaseTx, sess, BaseCust, BaseTickets) : sess \in SessTables}
    \cup {ExampleArchive}

-----------------------------------------------------------------------------
(* The script *)

EmptyCache == [full |-> FALSE, value |-> NoTables]

ScriptStart ==
    /\ pc = "load"
    /\ renderFetches = 0
    /\ transactions = EmptyTable /\ sessions = EmptyTable
    /\ customers = EmptyTable /\ tickets = EmptyTable /\ products = EmptyTable
    /\ monthly_rev = EmptyTable
    /\ merge = {}
    /\ cohort_size = <<>> /\ retention = EmptyMatrix /\ retention_rate = EmptyMatrix
    /\ support_vs_payment = EmptyTable
    /\ shown = <<>>

InitWith(archives) ==
    /\ archive \in archives
    /\ cache = EmptyCache
    /\ fetches = 0
    /\ renders = 1
    /\ ScriptStart

InitRev == InitWith(RevArchives)
InitRet == InitWith(RetArchives)
InitSup == InitWith(SupArchives)
Init == InitWith(LoaderArchives)

analysis == <<monthly_rev, merge, cohort_size, retention, retention_rate, support_vs_payment>>
tables == <<transactions, sessions, customers, tickets, products>>

Assign(t) ==
    /\ transactions' = t.transactions
    /\ sessions' = t.sessions
    /\ customers' = t.customers
    /\ tickets' = t.tickets
    /\ products' = t.products

\* the loader without its memo: every script run fetches
LoadUncached ==
    /\ pc = "load"
    /\ cache.full
    /\ fetches' = fetches + 1
    /\ renderFetches' = renderFetches + 1
    /\ Assign(archive)
    /\ pc' = "revenue"
    /\ UNCHANGED <<archive, cache, renders, analysis, shown>>

\* load_data_from_github() on a cache hit: st.cache_data hands out a copy
\* of the memoized return value and the function body does not run
LoadCached ==
    /\ pc = "load"
    /\ cache.full
    /\ Assign(cache.value)
    /\ pc' = "revenue"
    /\ UNCHANGED <<archive, cache, fetches, renders, renderFetches, analysis, shown>>

\* the body of load_data_from_github with response.status_code == 200
FetchOk ==
    /\ pc = "load"
    /\ ~cache.full
    /\ fetches' = fetches + 1
    /\ renderFetches' = renderFetches + 1
    /\ cache' = [full |-> TRUE, value |-> archive]
    /\ Assign(archive)
    /\ pc' = "revenue"
    /\ UNCHANGED <<archive, renders, analysis, shown>>

\* the failure branch without st.stop(): the script goes on
FetchFailNoStop ==
    /\ pc = "load"
    /\ ~cache.full
    /\ fetches' = fetches + 1
    /\ renderFetches' = renderFetches + 1
    /\ shown' = Append(shown, "error")
    /\ pc' = "revenue"
    /\ UNCHANGED <<archive, cache, renders, tables, analysis>>

\* the body of load_data_from_github with another status: st.error, then
\* st.stop, which ends the script run; nothing is returned, nothing memoized
FetchFail ==
    /\ pc = "load"
    /\ ~cache.full
    /\ \E status \in StatusCodes \ {HTTP_OK} :
          /\ fetches' = fetches + 1
          /\ renderFetches' = renderFetches + 1
          /\ shown' = Append(shown, "error")
          /\ pc' = "stopped"
    /\ UNCHANGED <<archive, cache, renders, tables, analysis>>

\* lines 44-81; line 48 raises on a transactions table without rows, and
\* an exception that nothing catches ends the script run, streamlit showing
\* it on the page
RevenueSection ==
    /\ pc = "revenue"
    /\ IF DtRaises(transactions)
       THEN /\ monthly_rev' = monthly_rev
            /\ shown' = Append(shown, "exception")
            /\ pc' = "raised"
       ELSE /\ monthly_rev' = MonthlyRev(transactions)
            /\ shown' = Append(shown, "rev_chart")
            /\ pc' = "retention"
    /\ UNCHANGED <<archive, cache, fetches, renders, renderFetches, tables,
                   merge, cohort_size, retention, retention_rate, support_vs_payment>>

\* lines 87-122; line 90 raises on a customers table without rows, and line
\* 91, after line 90 has added cohort_month to customers, on a sessions
\* table without rows
RetentionSection ==
    /\ pc = "retention"
    /\ IF DtRaises(customers)
       THEN /\ UNCHANGED <<customers, sessions, merge, cohort_size, retention,
                           retention_rate>>
            /\ shown' = Append(shown, "exception")
            /\ pc' = "raised"
       ELSE IF DtRaises(sessions)
       THEN /\ customers' = WithCohortMonth(customers)
            /\ UNCHANGED <<sessions, merge, cohort_size, retention, retention_rate>>
            /\ shown' = Append(shown, "exception")
            /\ pc' = "raised"
       ELSE /\ customers' = WithCohortMonth(customers)
            /\ sessions' = WithActivityMonth(sessions)
            /\ merge' = Filtered(WithMonthNumber(MergeLeft(customers', sessions')))
            /\ cohort_size' = CohortSize(merge')
            /\ retention' = Retention(merge')
            /\ retention_rate' = RetentionRate(retention', cohort_size')
            /\ shown' = Append(shown, "retention_table")
            /\ pc' = "support"
    /\ UNCHANGED <<archive, cache, fetches, renders, renderFetches,
                   transactions, tickets, products, monthly_rev, support_vs_payment>>

\* lines 128-161; the frame is bound at line 144, and line 159 raises when
\* the frame lacks a column that the plot names
SupportSection ==
    /\ pc = "support"
    /\ support_vs_payment' = SupportVsPayment(tickets, transactions)
    /\ IF ChartRaises(support_vs_payment')
       THEN /\ shown' = Append(shown, "exception")
            /\ pc' = "raised"
       ELSE /\ shown' = Append(shown, "scatter_plot")
            /\ pc' = "success"
    /\ UNCHANGED <<archive, cache, fetches, renders, renderFetches, tables,
                   monthly_rev, merge, cohort_size, retention, retention_rate>>

SuccessMessage ==
    /\ pc = "success"
    /\ shown' = Append(shown, "success")
    /\ pc' = "done"
    /\ UNCHANGED <<archive, cache, fetches, renders, renderFetches, tables, analysis>>

\* the next script run of the same process: the script's names are rebound
\* from scratch, only the memo of the loader survives
Rerun ==
    /\ pc \in {"done", "stopped", "raised"}
    /\ renders < MaxRenders
    /\ renders' = renders + 1
    /\ pc' = "load"
    /\ renderFetches' = 0
    /\ transactions' = EmptyTable /\ sessions' = EmptyTable
    /\ customers' = EmptyTable /\ tickets' = EmptyTable /\ products' = EmptyTable
    /\ monthly_rev' = EmptyTable
    /\ merge' = {}
    /\ cohort_size' = <<>> /\ retention' = EmptyMatrix /\ retention_rate' = EmptyMatrix
    /\ support_vs_payment' = EmptyTable
    /\ shown' = <<>>
    /\ UNCHANGED <<archive, cache, fetches>>

Next ==
    \/ LoadCached
    \/ FetchOk
    \/ FetchFail
    \/ RevenueSection
    \/ RetentionSection
    \/ SupportSection
    \/ SuccessMessage
    \/ Rerun

Spec == Init /\ [][Next]_vars
SpecRev == InitRev /\ [][Next]_vars
SpecRet == InitRet /\ [][Next]_vars
SpecSup == InitSup /\ [][Next]_vars


-----------------------------------------------------------------------------
(* Properties of the support/payment section, stated on the archive *)

\* line 144 has run: the frame of the section is bound
SupportDone == support_vs_payment # EmptyTable

TicketCustomers == {archive.tickets.rows[i]["customer_id"] : i \in DOMAIN archive.tickets.rows}
TxCustomers ==
    {archive.transactions.rows[i]["customer_id"] : i \in DOMAIN archive.transactions.rows}
OutputCustomers ==
    {support_vs_payment.rows[i]["customer_id"] : i \in DOMAIN support_vs_payment.rows}
NoCustomerRepeated == Cardinality(OutputCustomers) = Len(support_vs_payment.rows)

\* the number of transactions of a customer with a payment status
TxCount(cust, status) ==
    Cardinality({i \in DOMAIN archive.transactions.rows :
                    /\ archive.transactions.rows[i]["customer_id"] = cust
                    /\ archive.transactions.rows[i]["payment_status"] = status})
StatusesPresent ==
    {archive.transactions.rows[i]["payment_status"] : i \in DOMAIN archive.transactions.rows}

\* C1 as claimed: the output has exactly one row per customer that appears in
\* the tickets or in the transactions.
C1_UnionOfCustomers ==
    SupportDone => /\ OutputCustomers = TicketCustomers \cup TxCustomers
                   /\ NoCustomerRepeated

\* C1 as amended: the output has exactly one row per customer that appears in
\* the tickets; a customer with transactions and no ticket has no row.
C1_TicketCustomersOnly ==
    SupportDone => /\ OutputCustomers = TicketCustomers
                   /\ NoCustomerRepeated

C1_Witness ==
    /\ pc = "done"
    /\ TicketCustomers # {}
    /\ TxCustomers \ TicketCustomers # {}
    /\ TicketCustomers \ TxCustomers # {}
    /\ Len(archive.tickets.rows) > Cardinality(TicketCustomers)

\* C2: paid_tx is a column of the output and a field of every row; it is 0 in
\* every row when no transaction is paid, and otherwise it is the customer's
\* number of paid transactions.
C2_PaidTxAlwaysPresent ==
    SupportDone =>
        /\ "paid_tx" \in Range(support_vs_payment.cols)
        /\ \A i \in DOMAIN support_vs_payment.rows :
              LET row == support_vs_payment.rows[i]
              IN  /\ "paid_tx" \in DOMAIN row
                  /\ "paid" \notin StatusesPresent => row["paid_tx"] = 0
                  /\ "paid" \in StatusesPresent =>
                        /\ "paid" \in Range(support_vs_payment.cols)
                        /\ row["paid_tx"] = TxCount(row["customer_id"], "paid")

C2_Witness ==
    /\ pc = "done"
    /\ support_vs_payment.rows # <<>>
    /\ archive.transactions.rows # <<>>
    /\ "paid" \notin StatusesPresent
    /\ "paid" \notin Range(support_vs_payment.cols)
    /\ \A i \in DOMAIN support_vs_payment.rows : support_vs_payment.rows[i]["paid_tx"] = 0

\* C3: for every customer of the output and each of the statuses paid,
\* refunded and charged_back of which the customer has no transaction, the
\* column of that status is present in the row and holds 0.
C3_ZeroNeverMissing ==
    SupportDone =>
        \A i \in DOMAIN support_vs_payment.rows :
            \A status \in PaymentStatuses :
                LET row == support_vs_payment.rows[i]
                IN  TxCount(row["customer_id"], status) = 0 =>
                        /\ status \in Range(support_vs_payment.cols)
                        /\ status \in DOMAIN row
                        /\ row[status] = 0


-----------------------------------------------------------------------------
(* Properties of the retention section, stated on the archive *)

RetentionDone == "retention_table" \in Range(shown)

\* <<cohort, offset, customer>> for every session of a customer of the
\* customers table; the cohort is <<year, month>> of the signup date and the
\* offset the number of calendar months from the signup month to the session
Activity ==
    LET cid == Column(archive.customers, "customer_id")
        sgn == Column(archive.customers, "signup_date")
        sid == Column(archive.sessions, "customer_id")
        sst == Column(archive.sessions, "session_start")
    IN  UNION {{<<<<sgn[i].year, sgn[i].month>>,
                  12 * sst[j].year + sst[j].month - (12 * sgn[i].year + sgn[i].month),
                  cid[i]>> : j \in {k \in DOMAIN sid : sid[k] = cid[i]}} :
               i \in DOMAIN cid}

Offsets == MinOffset..MaxOffset
CohortKey(c) == <<c.year, c.month>>

\* the customers of a cohort active at an offset, and active in the window
ActiveAt(act, c, m) == {a[3] : a \in {x \in act : x[1] = CohortKey(c) /\ x[2] = m}}
ActiveInWindow(act, c) ==
    {a[3] : a \in {x \in act : x[1] = CohortKey(c) /\ x[2] \in Offsets}}

RateInRange(cell) == 0 <= cell.num /\ cell.num <= Percent * cell.den

\* what C4 and its amendment share: the cohorts of the matrix are those with
\* a customer active in the window, cohort_size counts these customers and
\* is positive, every cell counts the customers active at its offset, which
\* are at most cohort_size, and every rate lies in [0, 100]
RetentionCounts(act) ==
    /\ {CohortKey(c) : c \in Range(retention_rate.index)}
          = {a[1] : a \in {x \in act : x[2] \in Offsets}}
    /\ \A c \in Range(retention_rate.index) :
          /\ cohort_size[c] = Cardinality(ActiveInWindow(act, c))
          /\ cohort_size[c] > 0
          /\ \A m \in Range(retention_rate.cols) :
                /\ retention.cell[c][m] = Cardinality(ActiveAt(act, c, m))
                /\ retention.cell[c][m] <= cohort_size[c]
                /\ RateInRange(retention_rate.cell[c][m])

\* C4 as claimed: every rate lies in [0, 100], the customers active at an
\* offset never exceed the positive cohort_size, and a rate is 0 exactly
\* when no customer of the cohort is active at the offset.
C4_RateZeroIffNobodyActive ==
    RetentionDone =>
        LET act == Activity
        IN  /\ RetentionCounts(act)
            /\ \A c \in Range(retention_rate.index) :
                  \A m \in Range(retention_rate.cols) :
                      retention_rate.cell[c][m].num = 0 <=> ActiveAt(act, c, m) = {}

\* C4 as amended: every rate lies in [0, 100], the customers active at an
\* offset never exceed the positive cohort_size, and a rate is 0 exactly
\* when the customers active at the offset are at most 1 in 2000 of
\* cohort_size (the rounding to three decimals), so always when nobody is.
C4_RateZeroIffRoundedAway ==
    RetentionDone =>
        LET act == Activity
        IN  /\ RetentionCounts(act)
            /\ \A c \in Range(retention_rate.index) :
                  \A m \in Range(retention_rate.cols) :
                      /\ retention_rate.cell[c][m].num = 0
                            <=> 2 * Pow10(RoundDigits) * Cardinality(ActiveAt(act, c, m))
                                   <= cohort_size[c]
                      /\ ActiveAt(act, c, m) = {} => retention_rate.cell[c][m].num = 0

C4_Witness ==
    /\ pc = "done"
    /\ \E c \in Range(retention_rate.index) :
          /\ cohort_size[c] = 2
          /\ \E m \in Range(retention_rate.cols) :
                /\ retention.cell[c][m] = 1
                /\ retention_rate.cell[c][m].num * 2 = Percent * retention_rate.cell[c][m].den

\* C5 as claimed: the columns of the matrix are the offsets 0, 1, 2, 3, 4, 5,
\* whatever the sessions.
C5_AllSixOffsets ==
    RetentionDone => retention_rate.cols = [i \in 1..(MaxOffset - MinOffset + 1) |->
                                               MinOffset + i - 1]

\* C5 as amended: the columns of the matrix are, in ascending order, the
\* offsets in [0, 5] at which a customer of some cohort is active; a cohort
\* of the matrix with no customer active at such an offset holds 0 there.
C5_OffsetsWithActivity ==
    RetentionDone =>
        LET act == Activity
        IN  /\ Range(retention_rate.cols) = {a[2] : a \in act} \cap Offsets
            /\ Range(retention.cols) = Range(retention_rate.cols)
            /\ \A i, j \in DOMAIN retention_rate.cols :
                  i < j => retention_rate.cols[i] < retention_rate.cols[j]
            /\ \A c \in Range(retention_rate.index) :
                  /\ DOMAIN retention_rate.cell[c] = Range(retention_rate.cols)
                  /\ \A m \in Range(retention_rate.cols) :
                        ActiveAt(act, c, m) = {} =>
                            /\ retention.cell[c][m] = 0
                            /\ retention_rate.cell[c][m].num = 0

C5_Witness ==
    /\ pc = "done"
    /\ \E a \in Activity : a[2] < MinOffset \/ a[2] > MaxOffset
    /\ Len(retention_rate.cols) = 1
    /\ Len(retention_rate.cols) < MaxOffset - MinOffset + 1


-----------------------------------------------------------------------------
(* Properties of the revenue section, stated on the archive *)

RevenueDone == "rev_chart" \in Range(shown)

PaidRows ==
    {i \in DOMAIN archive.transactions.rows :
        archive.transactions.rows[i]["payment_status"] = "paid"}
MonthKey(i) == 12 * archive.transactions.rows[i]["created_at"].year
               + archive.transactions.rows[i]["created_at"].month
PaidMonths == {MonthKey(i) : i \in PaidRows}

RECURSIVE SumAmounts(_)
\* the sum of total_amount over a set of rows of the archive's transactions
SumAmounts(I) ==
    IF I = {} THEN 0
    ELSE LET i == CHOOSE x \in I : TRUE
         IN  archive.transactions.rows[i]["total_amount"] + SumAmounts(I \ {i})

\* the paid revenue of each calendar month with a paid transaction, oldest first
PaidTotals ==
    LET months == SortSet(PaidMonths, IntLess)
    IN  [k \in DOMAIN months |-> SumAmounts({i \in PaidRows : MonthKey(i) = months[k]})]

\* |x - mean| > ZThreshold * s, with s the sample standard deviation of xs
\* (divisor n - 1), cleared of its divisions and of its square root:
\*   (n - 1) * (n*x - S)^2 > ZThreshold^2 * n * (n*Q - S^2)
\* for S the sum and Q the sum of squares of xs
BeyondThreshold(x, xs) ==
    LET n == Len(xs)
        S == SumSeq(xs)
        Q == SumSeq([i \in DOMAIN xs |-> xs[i] * xs[i]])
    IN  /\ n >= 2
        /\ (n - 1) * (n * x - S) * (n * x - S) > ZThreshold * ZThreshold * n * (n * Q - S * S)

Labels == Column(monthly_rev, "anomaly")

\* C6: the months of the series are the calendar months with a paid
\* transaction, each with its paid total; a month is labelled "Anomaly"
\* exactly when its total is more than 2 sample standard deviations from the
\* mean of the totals, and "Normal" otherwise; for the totals
\* 100, 110, 105, 95, 600, 102 only the month with 600 is an anomaly.
C6_AnomalyIffBeyondTwoSigma ==
    RevenueDone =>
        LET xs == PaidTotals
        IN  /\ Column(monthly_rev, "total_amount") = xs
            /\ \A i \in DOMAIN monthly_rev.rows :
                  /\ Labels[i] \in {"Anomaly", "Normal"}
                  /\ Labels[i] = "Anomaly" <=> BeyondThreshold(xs[i], xs)
            /\ xs = ExampleTotals =>
                  Labels = <<"Normal", "Normal", "Normal", "Normal", "Anomaly", "Normal">>

C6_Witness ==
    /\ pc = "done"
    /\ PaidTotals = ExampleTotals
    /\ Labels[5] = "Anomaly"

\* C10: with paid transactions in fewer than 6 distinct calendar months no
\* month is labelled "Anomaly".
C10_NoAnomalyBelowSixMonths ==
    RevenueDone /\ Cardinality(PaidMonths) < 6 =>
        \A i \in DOMAIN monthly_rev.rows : Labels[i] = "Normal"

\* five months, one of them more than 1.7 standard deviations from the mean
C10_Witness ==
    /\ pc = "done"
    /\ Cardinality(PaidMonths) = 5
    /\ \E i \in DOMAIN monthly_rev.rows :
          LET z == monthly_rev.rows[i]["z_score"]
          IN  ~z.nan /\ 100 * z.num > 289 * z.den


-----------------------------------------------------------------------------
(* Properties of the loader and of the script as a whole *)

NothingComputed ==
    /\ transactions = EmptyTable /\ sessions = EmptyTable /\ customers = EmptyTable
    /\ tickets = EmptyTable /\ products = EmptyTable
    /\ monthly_rev = EmptyTable /\ merge = {} /\ cohort_size = <<>>
    /\ retention = EmptyMatrix /\ retention_rate = EmptyMatrix
    /\ support_vs_payment = EmptyTable

\* C7: a script run whose fetch returns a status other than 200 shows the
\* error and stops: it has fetched once, nothing is memoized, no table is
\* bound, no section has run or handed anything to the page, the success
\* message is not shown, and no step of the script is left to take.
C7_FetchFailureHalts ==
    /\ pc = "stopped" <=> "error" \in Range(shown)
    /\ "error" \in Range(shown) =>
          /\ shown = <<"error">>
          /\ renderFetches = 1
          /\ ~cache.full
          /\ NothingComputed
          /\ ~ENABLED (LoadCached \/ FetchOk \/ FetchFail \/ RevenueSection
                       \/ RetentionSection \/ SupportSection \/ SuccessMessage)

C7_Witness ==
    /\ pc = "stopped"
    /\ shown = <<"error">>
    /\ fetches = renders

\* C8 as claimed: the process performs the archive fetch at most once.
C8_AtMostOneFetch == fetches <= 1

\* C8 as amended: a script run fetches at most once, and once a fetch has
\* succeeded its result is memoized for good and no later step fetches; a
\* fetch that fails memoizes nothing, so the next script run fetches again.
C8_NoFetchOnceMemoized ==
    [][/\ cache.full => fetches' = fetches /\ cache' = cache
       /\ fetches' # fetches =>
             /\ fetches' = fetches + 1
             /\ renderFetches = 0 /\ renderFetches' = 1
             /\ cache'.full <=> pc' # "stopped"
       /\ pc = "load" /\ fetches' = fetches => cache.full /\ pc' = "revenue"]_vars

C8_Witness ==
    /\ pc = "done"
    /\ renders = 2
    /\ fetches = 1
    /\ renderFetches = 0
    /\ cache.full

SameTable(a, b) == a.cols = b.cols /\ a.rows = b.rows

\* C9: when the three sections have run, each of the five tables has the
\* columns and rows the loader returned.
C9_SourceTablesUnchanged ==
    SupportDone =>
        /\ SameTable(transactions, cache.value.transactions)
        /\ SameTable(sessions, cache.value.sessions)
        /\ SameTable(customers, cache.value.customers)
        /\ SameTable(tickets, cache.value.tickets)
        /\ SameTable(products, cache.value.products)

=============================================================================
